---- MODULE Spec2Model ----
(***************************************************************************)
(* Request-handling pipeline of the user service in src/src/main.rs:       *)
(* router dispatch, path/body extraction, validation, the single storage   *)
(* call of each handler, and the mapping of AppError to an HTTP response.  *)
(*                                                                         *)
(* Text (names, path segments) is a sequence of one-character strings, so  *)
(* that trimming and integer parsing are computed character by character.  *)
(* The users table is the set of its rows; a scan yields them in rowid     *)
(* order, the only plan SQLite has for "SELECT * FROM users" on a rowid    *)
(* table without secondary indexes.                                        *)
(*                                                                         *)
(* Not modelled: the tracing/CORS/timeout layers (lines 223-228), the      *)
(* documentation routes merged at line 222, request bodies that are not a  *)
(* JSON object with a string "name", and process start-up/shutdown.        *)
(***************************************************************************)
EXTENDS Integers, Sequences, FiniteSets, TLC

\* ------------------------------------------------------------------ bounds
\* Rows the table may hold (creates are refused beyond it; ids stay far below
\* the range of the i32 they are decoded into) and concurrent clients
MaxUsers == 4
NumClients == 2

\* --------------------------------------------------------------- constants
I32Max == 2147483647
OK == 200
CREATED == 201
BAD_REQUEST == 400
NOT_FOUND == 404
METHOD_NOT_ALLOWED == 405
INTERNAL_SERVER_ERROR == 500

Clients == 1..NumClients

\* ------------------------------------------------------------------- text
IsWhitespace(ch) == ch \in {" ", "\t"}

RECURSIVE trim_start(_)
trim_start(s) ==
    IF s = <<>> THEN s
    ELSE IF IsWhitespace(Head(s)) THEN trim_start(Tail(s))
    ELSE s

RECURSIVE trim_end(_)
trim_end(s) ==
    IF s = <<>> THEN s
    ELSE IF IsWhitespace(s[Len(s)]) THEN trim_end(SubSeq(s, 1, Len(s) - 1))
    ELSE s

\* str::trim
trim(s) == trim_end(trim_start(s))

Digits == {"0", "1", "2", "3", "4", "5", "6", "7", "8", "9"}

DigitVal(ch) ==
    CASE ch = "0" -> 0 [] ch = "1" -> 1 [] ch = "2" -> 2 [] ch = "3" -> 3
      [] ch = "4" -> 4 [] ch = "5" -> 5 [] ch = "6" -> 6 [] ch = "7" -> 7
      [] ch = "8" -> 8 [] ch = "9" -> 9

ParseErr == [ok |-> FALSE, val |-> 0]

\* The digit loop of i32::from_str: checked multiply-and-add, accumulating
\* downwards for a negative number so that i32::MIN parses
RECURSIVE accumulate(_, _, _)
accumulate(digs, acc, neg) ==
    IF digs = <<>> THEN [ok |-> TRUE, val |-> acc]
    ELSE LET d == DigitVal(Head(digs))
             room == IF neg
                     THEN (IF d = 0 THEN I32Max \div 10 ELSE (I32Max - (d - 1)) \div 10)
                     ELSE (I32Max - d) \div 10
             mag == IF neg THEN -acc ELSE acc
         IN  IF mag > room THEN ParseErr
             ELSE accumulate(Tail(digs), IF neg THEN acc * 10 - d ELSE acc * 10 + d, neg)

\* i32::from_str, as the Path<i32> extractor applies it to the {id} segment:
\* an optional sign, then one or more decimal digits, the value within i32.
parse_i32_lenient(s) ==
    LET signed == s # <<>> /\ Head(s) \in {"+", "-"}
        digs   == IF signed THEN Tail(s) ELSE s
    IN  IF digs # <<>> /\ \A i \in 1..Len(digs) : digs[i] \in Digits
        THEN accumulate(digs, 0, signed /\ Head(s) = "-")
        ELSE [ok |-> TRUE, val |-> 0]
parse_i32(s) ==
    LET signed == s # <<>> /\ Head(s) \in {"+", "-"}
        digs   == IF signed THEN Tail(s) ELSE s
    IN  IF digs # <<>> /\ \A i \in 1..Len(digs) : digs[i] \in Digits
        THEN accumulate(digs, 0, signed /\ Head(s) = "-")
        ELSE ParseErr

\* ------------------------------------------------------------ domain model
Alice == <<"A", "l", "i", "c", "e">>
Bob == <<"B", "o", "b">>

\* struct User
User(id, name) == [id |-> id, name |-> name]
NoUser == User(0, <<>>)

\* initialize_database: the schema and the two seeded rows
SeedRows == {User(1, Alice), User(2, Bob)}

Ids(t) == {u.id : u \in t}

MaxId(t) == CHOOSE i \in Ids(t) : \A j \in Ids(t) : j <= i

\* ---------------------------------------------------------- storage gateway
\* Rowid the table assigns to a new row: "id INTEGER PRIMARY KEY" without
\* AUTOINCREMENT takes one more than the largest rowid in use.
next_rowid_reuse_last(t) == IF t = {} THEN 1 ELSE MaxId(t)
next_rowid(t) == IF t = {} THEN 1 ELSE MaxId(t) + 1

RECURSIVE RowidScan(_)
RowidScan(t) ==
    IF t = {} THEN <<>>
    ELSE LET lo == CHOOSE u \in t : \A w \in t : u.id <= w.id
         IN  <<lo>> \o RowidScan(t \ {lo})

RECURSIVE Reverse(_)
Reverse(s) == IF s = <<>> THEN <<>> ELSE Reverse(Tail(s)) \o <<Head(s)>>

\* "SELECT * FROM users" .fetch_all
fetch_all_descending(t) == Reverse(RowidScan(t))
fetch_all(t) == RowidScan(t)

\* "SELECT * FROM users WHERE id = ?" .fetch_optional: <<>> is None, <<u>> is Some(u)
fetch_optional(t, id) ==
    LET m == {u \in t : u.id = id}
    IN  IF m = {} THEN <<>> ELSE <<CHOOSE u \in m : TRUE>>

\* "INSERT INTO users (name) VALUES (?) RETURNING id, name" .fetch_one, with
\* the name bound as submitted
insert_returning_trimmed(t, name) ==
    LET u == User(next_rowid(t), trim(name))
    IN  [table |-> t \cup {u}, user |-> u]
insert_returning(t, name) ==
    LET u == User(next_rowid(t), name)
    IN  [table |-> t \cup {u}, user |-> u]

\* Messages of the sqlx::Error a failed storage call carries
DriverMsgs == {"pool timed out while waiting for an open connection",
               "unable to open database file"}

\* --------------------------------------------------------------- responses
Body(kind, text, user, users) ==
    [kind |-> kind, text |-> text, user |-> user, users |-> users]
EmptyBody == Body("empty", "", NoUser, <<>>)
TextBody(s) == Body("text", s, NoUser, <<>>)
\* Json(serde_json::json!({ "error": msg }))
ErrorBody(msg) == Body("error", msg, NoUser, <<>>)
\* Json<User>
UserBody(u) == Body("user", "", u, <<>>)
\* Json<Vec<User>>
UsersBody(us) == Body("users", "", NoUser, us)

Reply(status, body) == [status |-> status, body |-> body]

\* ---------------------------------------------------------- error classifier
\* enum AppError
Sqlx(msg) == [variant |-> "Sqlx", msg |-> msg]
NotFoundErr == [variant |-> "NotFound", msg |-> ""]
Validation(msg) == [variant |-> "Validation", msg |-> msg]

\* Display of AppError, derived from the #[error("...")] attributes
to_string_bare(e) ==
    CASE e.variant = "Sqlx" -> e.msg
      [] e.variant = "NotFound" -> "Not found"
      [] e.variant = "Validation" -> e.msg
to_string(e) ==
    CASE e.variant = "Sqlx" -> "DB: " \o e.msg
      [] e.variant = "NotFound" -> "Not found"
      [] e.variant = "Validation" -> "Validation: " \o e.msg

\* the match of AppError::into_response
status_of_all_not_found(e) ==
    CASE e.variant = "Validation" -> BAD_REQUEST
      [] OTHER -> NOT_FOUND
status_of(e) ==
    CASE e.variant = "NotFound" -> NOT_FOUND
      [] e.variant = "Validation" -> BAD_REQUEST
      [] OTHER -> INTERNAL_SERVER_ERROR

\* AppError::into_response
into_response(e) == Reply(status_of(e), ErrorBody(to_string(e)))

\* ------------------------------------------------------------------ router
USERS == <<"u", "s", "e", "r", "s">>
HEALTH == <<"h", "e", "a", "l", "t", "h">>

\* build_router: the route table. A path is the sequence of its segments
\* ("/users/" is <<USERS, <<>>>>); {id} matches one non-empty segment. A
\* matched path whose method router has no handler for the method is
\* answered by the method router itself; Router::fallback is for paths that
\* match no route.
Route_fallback_on_method(method, path) ==
    IF path = <<USERS>> /\ method = "GET" THEN "get_users"
    ELSE IF path = <<USERS>> /\ method = "POST" THEN "create_user"
    ELSE IF Len(path) = 2 /\ path[1] = USERS /\ path[2] # <<>> /\ method = "GET"
         THEN "get_user"
    ELSE IF path = <<HEALTH>> /\ method = "GET" THEN "health"
    ELSE "fallback"
Route(method, path) ==
    IF path = <<USERS>>
    THEN CASE method = "GET" -> "get_users"
           [] method = "POST" -> "create_user"
           [] OTHER -> "method_not_allowed"
    ELSE IF Len(path) = 2 /\ path[1] = USERS /\ path[2] # <<>>
    THEN CASE method = "GET" -> "get_user"
           [] OTHER -> "method_not_allowed"
    ELSE IF path = <<HEALTH>>
    THEN CASE method = "GET" -> "health"
           [] OTHER -> "method_not_allowed"
    ELSE "fallback"

\* fn fallback
fallback == Reply(NOT_FOUND, ErrorBody("Route not found"))

\* The method router's answer to a method it has no handler for
method_not_allowed == Reply(METHOD_NOT_ALLOWED, EmptyBody)

\* The rejection of Path<i32> when the segment does not parse
path_rejection == Reply(BAD_REQUEST, TextBody("Invalid URL"))

\* ---------------------------------------------------------------- handlers
NoErr == ""

\* create_user, line 113: new.name.trim().is_empty()
is_blank_untrimmed(name) == name = <<>>
is_blank(name) == trim(name) = <<>>

\* fn health
health_pings_store(up) == IF up THEN Reply(OK, TextBody("ok")) ELSE into_response(Sqlx("unable to open database file"))
health(up) == Reply(OK, TextBody("ok"))

\* fn get_users, resumed with the outcome of its storage call
get_users(t, dbErr) ==
    IF dbErr # NoErr THEN into_response(Sqlx(dbErr))
    ELSE Reply(OK, UsersBody(fetch_all(t)))

\* fn get_user, resumed with the outcome of its storage call
get_user_default_on_none(t, id, dbErr) ==
    IF dbErr # NoErr THEN into_response(Sqlx(dbErr))
    ELSE LET found == fetch_optional(t, id)
         IN  IF found = <<>> THEN Reply(OK, UserBody(NoUser))
             ELSE Reply(OK, UserBody(found[1]))
get_user(t, id, dbErr) ==
    IF dbErr # NoErr THEN into_response(Sqlx(dbErr))
    ELSE LET found == fetch_optional(t, id)
         IN  IF found = <<>> THEN into_response(NotFoundErr)
             ELSE Reply(OK, UserBody(found[1]))

\* fn create_user after validation, resumed with the outcome of its storage
\* call: the reply and the table the call leaves
create_user(t, name, dbErr) ==
    IF dbErr # NoErr
    THEN [reply |-> into_response(Sqlx(dbErr)), table |-> t, user |-> NoUser]
    ELSE LET ins == insert_returning(t, name)
         IN  [reply |-> Reply(CREATED, UserBody(ins.user)),
              table |-> ins.table, user |-> ins.user]

\* ------------------------------------------------------------------ inputs
\* Names submitted to POST /users: blank ones (empty, whitespace only) and
\* valid ones, one of them with whitespace at both ends
Names ==
    {<<>>, <<"\t", " ">>, <<"a">>, <<" ", "a", " ">>}

\* Second segments of /users/{id}: empty (a trailing slash), integers with
\* and without sign, non-integers, and the first integer past i32::MAX
Segs ==
    {<<>>, <<"1">>, <<"3">>, <<"+", "3">>, <<"-", "3">>,
     <<"x">>, <<"3", "x">>, <<"-">>,
     <<"2", "1", "4", "7", "4", "8", "3", "6", "4", "8">>}

ELSEWHERE == <<"e", "l", "s", "e">>

\* Paths tried with every method: the root, the three route patterns (the
\* {id} one with an integer and with a non-integer), an unknown path, a
\* trailing slash and an extra segment
Paths ==
    {<<>>, <<USERS>>, <<HEALTH>>, <<ELSEWHERE>>,
     <<USERS, <<"3">>>>, <<USERS, <<"x">>>>, <<USERS, <<>>>>,
     <<USERS, <<"3">>, ELSEWHERE>>}

Methods == {"GET", "POST", "DELETE"}

Request(m, p, n) == [method |-> m, path |-> p, name |-> n]
Requests ==
    {Request(m, p, <<>>) : m \in Methods, p \in Paths}
      \cup {Request("GET", <<USERS, s>>, <<>>) : s \in Segs}
      \cup {Request("POST", <<USERS>>, n) : n \in Names}

\* ------------------------------------------------------------------- state
VARIABLES
    table,      \* rows of the users table
    storeUp,    \* whether a storage call made now succeeds
    inflight,   \* per client: the handler suspended at its storage call
    last,       \* the most recent response, with what the handler was given
    committed,  \* history: the rows in the order their inserts committed
    created     \* history: id returned by each 201 with the name submitted

vars == <<table, storeUp, inflight, last, committed, created>>

Pending(handler, id, name) == [handler |-> handler, id |-> id, name |-> name]
Idle == Pending("none", 0, <<>>)

\* A response as the client sees it (status, body), with what produced it:
\* the handler, the id or name it was given, the number of storage calls it
\* made and their outcome, and whether the store was reachable at the time
Response(handler, reply, calls, storage, id, name) ==
    [handler |-> handler, status |-> reply.status, body |-> reply.body,
     calls |-> calls, storage |-> storage, id |-> id, name |-> name,
     up |-> storeUp]

InflightCreates == Cardinality({c \in Clients : inflight[c].handler = "create_user"})

Init ==
    /\ table = SeedRows
    /\ storeUp = TRUE
    /\ inflight = [c \in Clients |-> Idle]
    /\ last = Response("none", Reply(0, EmptyBody), 0, "none", 0, <<>>)
    /\ committed = RowidScan(SeedRows)
    /\ created = {}

\* A response produced without reaching any storage call
Answer(handler, reply, name) ==
    /\ last' = Response(handler, reply, 0, "none", 0, name)
    /\ UNCHANGED <<table, storeUp, inflight, committed, created>>

\* The handler reaches its storage call and suspends
Suspend(c, p) ==
    /\ inflight' = [inflight EXCEPT ![c] = p]
    /\ UNCHANGED <<table, storeUp, last, committed, created>>

\* A request arrives: routing, extraction and validation, up to the first
\* storage call or the response
Receive(c, r) ==
    /\ inflight[c] = Idle
    /\ LET h == Route(r.method, r.path)
       IN  CASE h = "fallback" -> Answer("fallback", fallback, <<>>)
             [] h = "method_not_allowed" ->
                    Answer("method_not_allowed", method_not_allowed, <<>>)
             [] h = "health" -> Answer("health", health(storeUp), <<>>)
             [] h = "get_users" -> Suspend(c, Pending("get_users", 0, <<>>))
             [] h = "get_user" ->
                    LET id == parse_i32(r.path[2])
                    IN  IF id.ok THEN Suspend(c, Pending("get_user", id.val, <<>>))
                        ELSE Answer("path_rejection", path_rejection, <<>>)
             [] h = "create_user" ->
                    IF is_blank(r.name)
                    THEN Answer("create_user",
                                into_response(Validation("Name must not be empty")),
                                r.name)
                    ELSE /\ Cardinality(table) + InflightCreates < MaxUsers
                         /\ Suspend(c, Pending("create_user", 0, r.name))

\* The storage call of a suspended handler completes, successfully or with a
\* driver error, and the handler runs to its response
Resume(c) ==
    /\ inflight[c] # Idle
    /\ \E dbErr \in (IF storeUp THEN {NoErr} ELSE DriverMsgs) :
         LET p == inflight[c]
             storage == IF dbErr = NoErr THEN "ok" ELSE "err"
         IN  CASE p.handler = "get_users" ->
                    /\ last' = Response("get_users", get_users(table, dbErr),
                                        1, storage, 0, <<>>)
                    /\ UNCHANGED <<table, committed, created>>
               [] p.handler = "get_user" ->
                    /\ last' = Response("get_user", get_user(table, p.id, dbErr),
                                        1, storage, p.id, <<>>)
                    /\ UNCHANGED <<table, committed, created>>
               [] p.handler = "create_user" ->
                    LET out == create_user(table, p.name, dbErr)
                    IN  /\ last' = Response("create_user", out.reply,
                                            1, storage, out.user.id, p.name)
                        /\ table' = out.table
                        /\ committed' = IF dbErr = NoErr
                                        THEN Append(committed, out.user)
                                        ELSE committed
                        /\ created' = IF dbErr = NoErr
                                      THEN created \cup {User(out.user.id, p.name)}
                                      ELSE created
    /\ inflight' = [inflight EXCEPT ![c] = Idle]
    /\ UNCHANGED storeUp

\* The store becomes unreachable / reachable again
StoreFails ==
    /\ storeUp
    /\ storeUp' = FALSE
    /\ UNCHANGED <<table, inflight, last, committed, created>>

StoreRecovers ==
    /\ ~storeUp
    /\ storeUp' = TRUE
    /\ UNCHANGED <<table, inflight, last, committed, created>>

Next ==
    \/ \E c \in Clients : \E r \in Requests : Receive(c, r)
    \/ \E c \in Clients : Resume(c)
    \/ StoreFails
    \/ StoreRecovers

\* Requests arrive concurrently: a handler suspended at its storage call does
\* not keep another request from being received
Spec == Init /\ [][Next]_vars

\* Requests arrive one at a time, as the tests send them (oneshot): a request
\* is received only when no handler is suspended
ReceiveSerially(c, r) ==
    /\ \A d \in Clients : inflight[d] = Idle
    /\ Receive(c, r)

SerialNext ==
    \/ \E c \in Clients : \E r \in Requests : ReceiveSerially(c, r)
    \/ \E c \in Clients : Resume(c)
    \/ StoreFails
    \/ StoreRecovers

Serial == Init /\ [][SerialNext]_vars

\* ================================================================== claims
Range(q) == {q[i] : i \in 1..Len(q)}

AllWhitespace(name) == \A i \in 1..Len(name) : IsWhitespace(name[i])

StrictlyIncreasingIds(us) == \A i \in 1..Len(us) - 1 : us[i].id < us[i + 1].id

\* C1: a GET /users/i whose storage call succeeds, for an id i that a 201 of
\* POST /users returned, answers 200 with the user (i, the name exactly as
\* it was submitted).
C1_CreateThenGet ==
    (last.handler = "get_user" /\ last.storage = "ok")
        => \A u \in created :
              u.id = last.id => (last.status = OK /\ last.body = UserBody(u))

C1_Witness ==
    /\ last.handler = "get_user"
    /\ last.status = OK
    /\ User(last.id, <<" ", "a", " ">>) \in created

\* C2: a POST /users whose name is empty or all whitespace is answered 400
\* without any storage call, and persists nothing: the table holds exactly
\* the seeded rows and the rows of the creates answered 201, none of which
\* has a blank name.
C2_BlankNameRejected ==
    /\ (last.handler = "create_user" /\ AllWhitespace(last.name))
          => /\ last.status = BAD_REQUEST
             /\ last.calls = 0
             /\ last.storage = "none"
    /\ \A c \in Clients :
          inflight[c].handler = "create_user" => ~AllWhitespace(inflight[c].name)
    /\ table = SeedRows \cup created
    /\ \A u \in table : ~AllWhitespace(u.name)

C2_Witness ==
    /\ last.handler = "create_user"
    /\ last.name = <<"\t", " ">>
    /\ last.status = BAD_REQUEST

\* C3: a GET /users/{id} whose storage call succeeds, for an id no stored
\* user has, answers 404 with the body {"error": "Not found"}.
C3_UnknownIdNotFound ==
    (last.handler = "get_user" /\ last.storage = "ok" /\ last.id \notin Ids(table))
        => (last.status = NOT_FOUND /\ last.body = ErrorBody("Not found"))

C3_Witness ==
    /\ last.handler = "get_user"
    /\ last.storage = "ok"
    /\ last.id \notin Ids(table)
    /\ created # {}

\* C4: a GET /users whose storage call succeeds answers 200 with all stored
\* users in the order their inserts committed, Alice and Bob first, and
\* that order is strictly increasing in id.
C4_ListInInsertionOrder ==
    (last.handler = "get_users" /\ last.storage = "ok")
        => /\ last.status = OK
           /\ last.body = UsersBody(committed)
           /\ Range(committed) = table
           /\ StrictlyIncreasingIds(last.body.users)
           /\ last.body.users[1] = User(1, Alice)
           /\ last.body.users[2] = User(2, Bob)

C4_Witness ==
    /\ last.handler = "get_users"
    /\ last.status = OK
    /\ Len(last.body.users) >= 4

\* The kind of failure behind an error response of the classifier
ErrorKind ==
    IF last.storage = "err" THEN "Storage"
    ELSE IF last.handler = "create_user" THEN "Validation"
    ELSE "NotFound"

FromClassifier ==
    /\ last.handler \in {"get_users", "get_user", "create_user"}
    /\ last.body.kind = "error"

\* C5 as stated: the "error" field of every error response of the
\* classifier is "Not found", the bare validation message, or the bare driver
\* message, with no prefix.
C5_BareMessages ==
    FromClassifier
        => CASE ErrorKind = "NotFound" -> last.body.text = "Not found"
             [] ErrorKind = "Validation" -> last.body.text = "Name must not be empty"
             [] ErrorKind = "Storage" -> last.body.text \in DriverMsgs

\* C5, amended: the "error" field of every error response of the classifier
\* is the Display text of the error: "Not found" for NotFound,
\* "Validation: Name must not be empty" for the validation failure of
\* POST /users, and "DB: " followed by the driver message for a storage failure.
C5_DisplayMessages ==
    FromClassifier
        => CASE ErrorKind = "NotFound" -> last.body.text = "Not found"
             [] ErrorKind = "Validation" ->
                    last.body.text = "Validation: Name must not be empty"
             [] ErrorKind = "Storage" ->
                    \E m \in DriverMsgs : last.body.text = "DB: " \o m

C5_Witness ==
    /\ FromClassifier
    /\ ErrorKind = "Storage"
    /\ last.handler = "create_user"

\* The four route patterns of the specification
PathMatchesARoute(path) ==
    \/ path = <<USERS>>
    \/ path = <<HEALTH>>
    \/ (Len(path) = 2 /\ path[1] = USERS /\ path[2] # <<>>)

IsOneOfTheFour(r) ==
    \/ (r.method \in {"GET", "POST"} /\ r.path = <<USERS>>)
    \/ (r.method = "GET" /\ r.path = <<HEALTH>>)
    \/ (r.method = "GET" /\ Len(r.path) = 2 /\ r.path[1] = USERS /\ r.path[2] # <<>>)

OutsideTheFour == {r \in Requests : ~IsOneOfTheFour(r)}

AnsweredByFallback ==
    /\ last'.status = NOT_FOUND
    /\ last'.body = ErrorBody("Route not found")
    /\ last'.calls = 0
    /\ inflight' = inflight
    /\ table' = table

\* C6 as stated: every request whose method and path are not one of the four
\* routes, a known path with another method included, is answered 404
\* {"error": "Route not found"} without touching the store.
C6_AllUnmatchedAre404 ==
    [][\A c \in Clients : \A r \in OutsideTheFour :
          Receive(c, r) => AnsweredByFallback]_vars

\* C6, amended: a request reaching the router whose path matches no route is
\* answered 404 {"error": "Route not found"}; one whose path matches a route that
\* has no handler for its method is answered 405 with an empty body; neither
\* touches the store.
C6_FallbackOr405 ==
    [][\A c \in Clients : \A r \in OutsideTheFour :
          Receive(c, r)
              => IF PathMatchesARoute(r.path)
                 THEN /\ last'.status = METHOD_NOT_ALLOWED
                      /\ last'.body = EmptyBody
                      /\ last'.calls = 0
                      /\ inflight' = inflight
                      /\ table' = table
                 ELSE AnsweredByFallback]_vars

C6_Witness ==
    /\ last.handler = "method_not_allowed"
    /\ last.status = METHOD_NOT_ALLOWED

\* A segment that is not an optionally signed run of decimal digits
NotAnInteger(seg) ==
    LET digs == IF seg # <<>> /\ Head(seg) \in {"+", "-"} THEN Tail(seg) ELSE seg
    IN  digs = <<>> \/ \E i \in 1..Len(digs) : digs[i] \notin Digits

NonIntegerIdRequests ==
    {r \in Requests : /\ r.method = "GET"
                      /\ Len(r.path) = 2
                      /\ r.path[1] = USERS
                      /\ r.path[2] # <<>>
                      /\ NotAnInteger(r.path[2])}

\* C7 as stated: GET /users/{id} with an id that is not an integer is
\* answered exactly as an unmatched route (404, {"error": "Route not
\* found"}), and the body of get_user never runs.
C7_NonIntegerIdIs404 ==
    [][\A c \in Clients : \A r \in NonIntegerIdRequests :
          Receive(c, r) => AnsweredByFallback]_vars

\* C7, amended: GET /users/{id} with an id that is not an integer is
\* rejected by the path extractor with 400 and a plain-text body, not with
\* the fallback's 404, and the body of get_user never runs: no storage call
\* is made and nothing is left suspended.
C7_NonIntegerIdIs400 ==
    [][\A c \in Clients : \A r \in NonIntegerIdRequests :
          Receive(c, r)
              => /\ last'.handler = "path_rejection"
                 /\ last'.status = BAD_REQUEST
                 /\ last'.body.kind = "text"
                 /\ last'.calls = 0
                 /\ inflight' = inflight
                 /\ table' = table]_vars

C7_Witness ==
    /\ last.handler = "path_rejection"
    /\ last.status = BAD_REQUEST
    /\ created # {}

\* C8: GET /health answers 200 "ok" whatever the table holds and whether or
\* not the store is reachable, and makes no storage call.
C8_HealthAlwaysOk ==
    last.handler = "health"
        => /\ last.status = OK
           /\ last.body = TextBody("ok")
           /\ last.calls = 0
           /\ last.storage = "none"

C8_Witness ==
    /\ last.handler = "health"
    /\ last.status = OK
    /\ ~last.up

\* C9: a handler whose storage call fails made exactly one storage call and
\* answers 500 with an error body, never a success, a 404 or a 400; a failed
\* insert stores nothing, so the table holds exactly the seeded rows and the
\* rows of the creates answered 201.
C9_StorageFailureIs500 ==
    /\ last.storage = "err"
          => /\ last.status = INTERNAL_SERVER_ERROR
             /\ last.body.kind = "error"
             /\ last.calls = 1
             /\ ~last.up
    /\ (~last.up /\ last.handler \in {"get_users", "get_user", "create_user"}
          /\ last.calls > 0)
          => last.storage = "err"
    /\ table = Range(committed)
    /\ Len(committed) = Cardinality(SeedRows) + Cardinality(created)

C9_Witness ==
    /\ last.handler = "create_user"
    /\ last.storage = "err"
    /\ last.status = INTERNAL_SERVER_ERROR

\* C10: under every interleaving of creates and reads, all stored ids are
\* pairwise distinct, also among all rows ever inserted; no inserted row is
\* changed or removed; and a create answered 201 has added exactly one row,
\* the latest, with the returned id and the submitted name.
C10_UniqueIds ==
    /\ Cardinality(Ids(table)) = Cardinality(table)
    /\ \A i, j \in 1..Len(committed) : committed[i].id = committed[j].id => i = j
    /\ Range(committed) \subseteq table
    /\ Cardinality(created) = Len(committed) - Cardinality(SeedRows)
    /\ (last.handler = "create_user" /\ last.status = CREATED)
          => /\ last.body = UserBody(User(last.id, last.name))
             /\ committed[Len(committed)] = User(last.id, last.name)
             /\ \A i \in 1..Len(committed) - 1 : committed[i].id # last.id

C10_Witness ==
    /\ last.handler = "create_user"
    /\ last.status = CREATED
    /\ InflightCreates >= 1

====
